---- MODULE Spec2Model ----
(***************************************************************************)
(* Model of wayland-kbd's mapped keyboard (src/src/mapped_keyboard.rs):    *)
(* the KbState struct, its methods, the two registration functions and the *)
(* wl_keyboard implementation closures.  libxkbcommon is modelled as a     *)
(* heap of handles plus the documented behaviour of the entry points the   *)
(* code calls; every engine call made by an operation is recorded in       *)
(* `calls`, every handler callback in `handler`.                           *)
(***************************************************************************)
EXTENDS Integers, Sequences, FiniteSets, TLC

VARIABLES pc, result, xkb_context, xkb_keymap, xkb_state, xkb_compose_table,
          xkb_compose_state, mods_state, locked, heap, calls, handler, event

vars == <<pc, result, xkb_context, xkb_keymap, xkb_state, xkb_compose_table,
          xkb_compose_state, mods_state, locked, heap, calls, handler, event>>

(***************************************************************************)
(* Bounds of the model.                                                    *)
(***************************************************************************)
\* wire keycodes range over 0..MaxKeycode
MaxKeycode == 3
\* at most MaxKeymaps keymaps are compiled in one run
MaxKeymaps == 2
\* an enter notification reports at most MaxPressed keys
MaxPressed == 1
\* in SpecEnter an enter notification reports at most MaxEntered keys
MaxEntered == 2

(***************************************************************************)
(* Values.                                                                 *)
(***************************************************************************)
\* ptr::null_mut()
NULL == 0
\* evdev-to-xkb keycode offset
KeycodeOffset == 8

None == [tag |-> "None"]
Some(x) == [tag |-> "Some", val |-> x]

Keycodes == 0..MaxKeycode
\* the keymap blobs a compositor sends: 0 is malformed, 1 and 2 compile
Blobs == {0, 1, 2}
Serials == {7}
Times == {10}
Surfaces == {1}
Rates == {25}
Delays == {600}
KeyStates == {"Pressed", "Released"}
KeymapFormats == {"XkbV1", "NoKeymap"}

\* the lists of n pressed keys: a key is pressed at most once
PressedLists(n) ==
  {q \in [1..n -> Keycodes] : \A i, j \in 1..n : q[i] = q[j] => i = j}

\* modifier masks are sets of modifier indices
ModBits == {0, 1}
DepressedValues == SUBSET ModBits
LatchedValues == {{}}
LockedValues == {{}}
GroupValues == {0, 1}

\* XKB_MOD_NAME_* in the order update_with queries them
ModNames == <<"Control", "Mod1", "Shift", "Lock", "Mod4", "Mod2">>
ModNameSet == {ModNames[i] : i \in 1..Len(ModNames)}

\* what a query on an invalid (null) interpretation state may return
UBResults == {[n \in ModNameSet |-> v] : v \in {0, 1}}
NoUB == [n \in ModNameSet |-> 0]

\* ModifiersState::new()
ModifiersState_new ==
  [ctrl |-> FALSE, alt |-> FALSE, shift |-> FALSE, caps_lock |-> FALSE,
   logo |-> FALSE, num_lock |-> FALSE]

(***************************************************************************)
(* The engine: keymaps.  A compiled keymap is identified by the blob it was*)
(* compiled from; the tables below give, for each blob, the index of each  *)
(* named modifier and the symbol and text of each key.                     *)
(***************************************************************************)
\* the usual order of the real modifiers
StdMods == <<"Shift", "Lock", "Control", "Mod1", "Mod2", "Mod4">>
NamePos(name) == CHOOSE i \in 1..Len(StdMods) : StdMods[i] = name

\* index of the named modifier in keymap `content` (xkb_keymap_mod_get_index):
\* keymap 1 has Shift and Lock at indices 0 and 1, keymap 2 Control and Mod1
ModIndex(content, name) == (NamePos(name) - 1 + 4 * (content - 1)) % 6

KeyRoles == <<"mod", "dead", "a", "e">>

\* what the key with xkb keycode `code` is in keymap `content`
KeyRole(content, code) ==
  IF code < KeycodeOffset THEN "nokey"
  ELSE KeyRoles[((code - KeycodeOffset + content + 3) % 4) + 1]

XKB_KEY_NoSymbol == 0
XKB_KEY_Shift_L == 65505
XKB_KEY_dead_acute == 65105
XKB_KEY_a == 97
XKB_KEY_A == 65
XKB_KEY_e == 101
XKB_KEY_E == 69

\* xkb_keysym_is_modifier
IsModifierKeysym(sym) == sym \in 65505..65518

Effective(st) == st.depressed \cup st.latched \cup st.locked

ShiftActive(st) == ModIndex(st.content, "Shift") \in Effective(st)

\* the single symbol of a key, 0 when it has none or several
EngineSym(st, code) ==
  LET role == KeyRole(st.content, code) IN
  CASE role = "mod" -> XKB_KEY_Shift_L
    [] role = "dead" -> XKB_KEY_dead_acute
    [] role = "a" -> IF ShiftActive(st) THEN XKB_KEY_A ELSE XKB_KEY_a
    [] role = "e" -> IF ShiftActive(st) THEN XKB_KEY_E ELSE XKB_KEY_e
    [] OTHER -> XKB_KEY_NoSymbol

\* the UTF-8 bytes of a key, without terminator
EngineUtf8(st, code) ==
  LET sym == EngineSym(st, code) IN
  IF sym \in {XKB_KEY_a, XKB_KEY_A, XKB_KEY_e, XKB_KEY_E} THEN <<sym>> ELSE <<>>

(***************************************************************************)
(* The engine: compose.  Node 0 is the root, node 1 follows dead_acute,    *)
(* node 2 is the leaf of <dead_acute> <a>, which composes a-acute.         *)
(***************************************************************************)
ComposeIsLeaf(node) == node # 1

ComposeNext(context, sym) ==
  LET from == IF ComposeIsLeaf(context) THEN 0 ELSE context IN
  CASE from = 0 /\ sym = XKB_KEY_dead_acute -> 1
    [] from = 1 /\ sym = XKB_KEY_a -> 2
    [] OTHER -> 0

ComposeText(context) ==
  CASE context = 2 -> <<195, 161>>
    [] OTHER -> <<>>

ComposeStatusOf(cs) ==
  CASE cs.context = 0 /\ ~ComposeIsLeaf(cs.prev_context) -> "XKB_COMPOSE_CANCELLED"
    [] cs.context = 0 /\ ComposeIsLeaf(cs.prev_context) -> "XKB_COMPOSE_NOTHING"
    [] cs.context # 0 /\ ~ComposeIsLeaf(cs.context) -> "XKB_COMPOSE_COMPOSING"
    [] OTHER -> "XKB_COMPOSE_COMPOSED"

(***************************************************************************)
(* The engine: handles.  heap[h] describes handle h; a handle is the index *)
(* of its allocation.  The operators below take and return a record `s`    *)
(* holding the KbState fields, the heap and the log of engine calls.       *)
(***************************************************************************)
Min(a, b) == IF a < b THEN a ELSE b

\* one engine call: its name, its arguments and what it returned
Log(s, op, args, ret) ==
  [s EXCEPT !.calls = Append(@, [op |-> op, args |-> args, ret |-> ret])]

NewHandle(s) == Len(s.heap) + 1

Alloc(s, kind, parent, data) ==
  [s EXCEPT !.heap = Append(@, [kind |-> kind, unrefs |-> 0, parent |-> parent,
                                data |-> data])]

\* xkb_*_unref: a null argument is accepted and ignored
Unref(s, op, h) ==
  LET s1 == Log(s, op, <<h>>, "void") IN
  IF h = NULL THEN s1
  ELSE [s1 EXCEPT !.heap[h] = [kind |-> @.kind, unrefs |-> @.unrefs + 1,
                               parent |-> @.parent, data |-> <<>>]]

Live(h) == h # NULL /\ h \in 1..Len(heap) /\ heap[h].unrefs = 0

HandlesOf(kind) == {h \in 1..Len(heap) : heap[h].kind = kind}

\* what snprintf-style engine calls leave in a buffer of `size` bytes
Fill(buffer, text, size) ==
  IF size = 0 THEN buffer
  ELSE LET n == Min(Len(text), size - 1)
           written == SubSeq(text, 1, n) \o <<0>>
       IN written \o SubSeq(buffer, Len(written) + 1, Len(buffer))

\* Vec::with_capacity(size) followed by set_len(size)
Uninit(size) == [i \in 1..size |-> 255]

\* Vec::pop
Pop(buffer) == SubSeq(buffer, 1, Len(buffer) - 1)

(***************************************************************************)
(* The engine: entry points.  Each returns the new `s`, or a record with   *)
(* the new `s` and the returned value.                                     *)
(***************************************************************************)
\* xkb_state_mod_name_is_active(state, name, XKB_STATE_MODS_EFFECTIVE); a
\* null state is dereferenced by the engine, `ub` is what comes back then
xkb_state_mod_name_is_active(s, state, name, ub) ==
  IF state = NULL \/ s.heap[state].unrefs > 0 THEN ub[name]
  ELSE LET st == s.heap[state].data IN
       IF ModIndex(st.content, name) \in Effective(st) THEN 1 ELSE 0

\* xkb_state_update_mask(state, depressed, latched, locked, 0, 0, group):
\* stores the components and returns the set of components that changed
xkb_state_update_mask(s, state, depressed, latched, locked_mods, group) ==
  LET old == s.heap[state].data
      new == [old EXCEPT !.depressed = depressed, !.latched = latched,
                         !.locked = locked_mods, !.group = group]
      mask == (IF old.depressed # depressed THEN {"XKB_STATE_MODS_DEPRESSED"} ELSE {})
         \cup (IF old.latched # latched THEN {"XKB_STATE_MODS_LATCHED"} ELSE {})
         \cup (IF old.locked # locked_mods THEN {"XKB_STATE_MODS_LOCKED"} ELSE {})
         \cup (IF Effective(old) # Effective(new) THEN {"XKB_STATE_MODS_EFFECTIVE"} ELSE {})
         \cup (IF old.group # group
               THEN {"XKB_STATE_LAYOUT_LOCKED", "XKB_STATE_LAYOUT_EFFECTIVE"} ELSE {})
      s1 == Log(s, "xkb_state_update_mask",
                <<state, depressed, latched, locked_mods, 0, 0, group>>, mask)
  IN [s |-> [s1 EXCEPT !.heap[state].data = new], ret |-> mask]

\* xkb_state_key_get_one_sym(state, key)
xkb_state_key_get_one_sym(s, state, code) ==
  LET sym == EngineSym(s.heap[state].data, code) IN
  [s |-> Log(s, "xkb_state_key_get_one_sym", <<state, code>>, sym), ret |-> sym]

\* xkb_state_key_get_utf8(state, key, buffer, size): returns the length of
\* the text and writes at most size bytes, terminator included
xkb_state_key_get_utf8(s, state, code, buffer, size) ==
  LET text == EngineUtf8(s.heap[state].data, code) IN
  [s |-> Log(s, "xkb_state_key_get_utf8", <<state, code, Len(buffer), size>>, Len(text)),
   ret |-> Len(text),
   buffer |-> Fill(buffer, text, size)]

\* xkb_compose_state_feed(compose_state, keysym): an ignored keysym leaves
\* the sequence as it is.  Modifier keysyms are always ignored; which other
\* keysyms are is the engine's choice (`ignore`)
xkb_compose_state_feed(s, compose_state, keysym, ignore) ==
  LET cs == s.heap[compose_state].data
      ret == IF IsModifierKeysym(keysym) \/ ignore
             THEN "XKB_COMPOSE_FEED_IGNORED" ELSE "XKB_COMPOSE_FEED_ACCEPTED"
      s1 == Log(s, "xkb_compose_state_feed", <<compose_state, keysym>>, ret)
  IN IF ret = "XKB_COMPOSE_FEED_IGNORED"
     THEN [s |-> s1, ret |-> ret]
     ELSE [s |-> [s1 EXCEPT !.heap[compose_state].data =
                    [context |-> ComposeNext(cs.context, keysym),
                     prev_context |-> cs.context]],
           ret |-> ret]

\* xkb_compose_state_get_status(compose_state)
xkb_compose_state_get_status(s, compose_state) ==
  LET status == ComposeStatusOf(s.heap[compose_state].data) IN
  [s |-> Log(s, "xkb_compose_state_get_status", <<compose_state>>, status),
   ret |-> status]

\* xkb_compose_state_get_utf8(compose_state, buffer, size)
xkb_compose_state_get_utf8(s, compose_state, buffer, size) ==
  LET text == ComposeText(s.heap[compose_state].data.context) IN
  [s |-> Log(s, "xkb_compose_state_get_utf8", <<compose_state, Len(buffer), size>>,
             Len(text)),
   ret |-> Len(text),
   buffer |-> Fill(buffer, text, size)]

(***************************************************************************)
(* impl ModifiersState / impl KbState                                      *)
(***************************************************************************)
\* KbState::ready
ready(s) == s.xkb_state # NULL

\* ModifiersState::update_with
update_with(s, state, ub) ==
  LET q(name) == xkb_state_mod_name_is_active(s, state, name, ub) > 0
      logged[i \in 0..Len(ModNames)] ==
        IF i = 0 THEN s
        ELSE Log(logged[i - 1], "xkb_state_mod_name_is_active", <<state, ModNames[i]>>,
                 xkb_state_mod_name_is_active(s, state, ModNames[i], ub))
  IN [logged[Len(ModNames)] EXCEPT !.mods_state =
        [ctrl |-> q("Control"), alt |-> q("Mod1"), shift |-> q("Shift"),
         caps_lock |-> q("Lock"), logo |-> q("Mod4"), num_lock |-> q("Mod2")]]

\* mutant: the layout component is tested instead of the modifiers one
layout_changed(mask) == "XKB_STATE_LAYOUT_EFFECTIVE" \in mask

\* mask.contains(XKB_STATE_MODS_EFFECTIVE)
effective_changed(mask) == "XKB_STATE_MODS_EFFECTIVE" \in mask

\* mutant: the engine is asked even without an interpretation state
update_modifiers_unguarded(s, mods_depressed, mods_latched, mods_locked, group) ==
  IF ~ready(s)
  THEN Log(s, "xkb_state_update_mask",
           <<s.xkb_state, mods_depressed, mods_latched, mods_locked, 0, 0, group>>, {})
  ELSE LET r == xkb_state_update_mask(s, s.xkb_state, mods_depressed, mods_latched,
                                      mods_locked, group)
       IN IF effective_changed(r.ret)
          THEN update_with(r.s, r.s.xkb_state, NoUB)
          ELSE r.s

\* KbState::update_modifiers
update_modifiers(s, mods_depressed, mods_latched, mods_locked, group) ==
  IF ~ready(s) THEN s
  ELSE LET r == xkb_state_update_mask(s, s.xkb_state, mods_depressed, mods_latched,
                                      mods_locked, group)
       IN IF effective_changed(r.ret)
          THEN update_with(r.s, r.s.xkb_state, NoUB)
          ELSE r.s

\* u32 values are written in two's complement: a value below 2^31 stands
\* for itself, a value v from 2^31 on is written v - 2^32, so that U32Max
\* (0xFFFFFFFF) is -1 and wrapping addition is integer addition
U32Max == -1

\* a < b as unsigned 32-bit values
U32Lt(a, b) == IF (a < 0) = (b < 0) THEN a < b ELSE b < 0

\* keycode + 8 as the release build computes it (wrapping)
Add8(keycode) == keycode + KeycodeOffset

\* whether keycode + 8 exceeds the u32 range: the wrapped sum is below keycode
Add8Overflows(keycode) == U32Lt(Add8(keycode), keycode)

\* mutant: before a keymap is loaded the keycode itself is passed on
get_one_sym_raw_passthrough(s, keycode) ==
  IF ~ready(s) THEN [s |-> s, ret |-> Add8(keycode)]
  ELSE xkb_state_key_get_one_sym(s, s.xkb_state, Add8(keycode))

\* KbState::get_one_sym_raw
get_one_sym_raw(s, keycode) ==
  IF ~ready(s) THEN [s |-> s, ret |-> 0]
  ELSE xkb_state_key_get_one_sym(s, s.xkb_state, Add8(keycode))

\* mutant: the terminator is not counted in the size
get_utf8_raw_uncounted(s, keycode) ==
  IF ~ready(s) THEN [s |-> s, ret |-> None]
  ELSE LET r1 == xkb_state_key_get_utf8(s, s.xkb_state, Add8(keycode), <<>>, 0)
           size == r1.ret
       IN IF size <= 1 THEN [s |-> r1.s, ret |-> None]
          ELSE LET r2 == xkb_state_key_get_utf8(r1.s, s.xkb_state, Add8(keycode),
                                                Uninit(size), size)
               IN [s |-> r2.s, ret |-> Some(Pop(r2.buffer))]

\* KbState::get_utf8_raw
get_utf8_raw(s, keycode) ==
  IF ~ready(s) THEN [s |-> s, ret |-> None]
  ELSE LET r1 == xkb_state_key_get_utf8(s, s.xkb_state, Add8(keycode), <<>>, 0)
           size == r1.ret + 1
       IN IF size <= 1 THEN [s |-> r1.s, ret |-> None]
          ELSE LET r2 == xkb_state_key_get_utf8(r1.s, s.xkb_state, Add8(keycode),
                                                Uninit(size), size)
               IN [s |-> r2.s, ret |-> Some(Pop(r2.buffer))]

\* KbState::compose_feed
compose_feed(s, keysym, ignore) ==
  IF ~ready(s) \/ s.xkb_compose_state = NULL THEN [s |-> s, ret |-> None]
  ELSE LET r == xkb_compose_state_feed(s, s.xkb_compose_state, keysym, ignore)
       IN [s |-> r.s, ret |-> Some(r.ret)]

\* KbState::compose_status
compose_status(s) ==
  IF ~ready(s) \/ s.xkb_compose_state = NULL THEN [s |-> s, ret |-> None]
  ELSE LET r == xkb_compose_state_get_status(s, s.xkb_compose_state)
       IN [s |-> r.s, ret |-> Some(r.ret)]

\* KbState::compose_get_utf8
compose_get_utf8(s) ==
  IF ~ready(s) \/ s.xkb_compose_state = NULL THEN [s |-> s, ret |-> None]
  ELSE LET r1 == xkb_compose_state_get_utf8(s, s.xkb_compose_state, <<>>, 0)
           size == r1.ret + 1
       IN IF size <= 1 THEN [s |-> r1.s, ret |-> None]
          ELSE LET r2 == xkb_compose_state_get_utf8(r1.s, s.xkb_compose_state,
                                                    Uninit(size), size)
               IN [s |-> r2.s, ret |-> Some(Pop(r2.buffer))]

(***************************************************************************)
(* Keymap lifecycle.  `eng` holds what the engine answers to the calls     *)
(* whose outcome the program cannot determine: eng.stateOk says whether    *)
(* xkb_state_new returns a state, eng.crash and eng.ub what the queries on *)
(* a null state do.                                                        *)
(***************************************************************************)
EngOk == [stateOk |-> TRUE, crash |-> FALSE, ub |-> NoUB]

EngOutcomes ==
  {EngOk} \cup {[stateOk |-> FALSE, crash |-> TRUE, ub |-> NoUB]}
          \cup {[stateOk |-> FALSE, crash |-> FALSE, ub |-> u] : u \in UBResults}

\* mutant: a new interpretation state keeps the old snapshot
post_init_keeping_snapshot(s, keymap_handle, eng) ==
  LET state_handle == IF eng.stateOk THEN NewHandle(s) ELSE NULL
      s1 == Log(s, "xkb_state_new", <<keymap_handle>>, state_handle)
      s2 == IF eng.stateOk
            THEN Alloc(s1, "state", keymap_handle,
                       [content |-> s.heap[keymap_handle].data.content,
                        depressed |-> {}, latched |-> {}, locked |-> {}, group |-> 0])
            ELSE s1
      s3 == [s2 EXCEPT !.xkb_keymap = keymap_handle, !.xkb_state = state_handle]
  IN IF ~eng.stateOk /\ eng.crash
     THEN [s |-> Log(s3, "xkb_state_mod_name_is_active", <<state_handle, ModNames[1]>>,
                     "crash"),
           outcome |-> "crash"]
     ELSE [s |-> s3, outcome |-> "ok"]

\* KbState::post_init
post_init(s, keymap_handle, eng) ==
  LET state_handle == IF eng.stateOk THEN NewHandle(s) ELSE NULL
      s1 == Log(s, "xkb_state_new", <<keymap_handle>>, state_handle)
      s2 == IF eng.stateOk
            THEN Alloc(s1, "state", keymap_handle,
                       [content |-> s.heap[keymap_handle].data.content,
                        depressed |-> {}, latched |-> {}, locked |-> {}, group |-> 0])
            ELSE s1
      s3 == [s2 EXCEPT !.xkb_keymap = keymap_handle, !.xkb_state = state_handle]
  IN IF ~eng.stateOk /\ eng.crash
     THEN [s |-> Log(s3, "xkb_state_mod_name_is_active", <<state_handle, ModNames[1]>>,
                     "crash"),
           outcome |-> "crash"]
     ELSE [s |-> update_with(s3, state_handle, eng.ub), outcome |-> "ok"]

\* mutant: the handles are forgotten without being released
de_init_leaking(s) == [s EXCEPT !.xkb_state = NULL, !.xkb_keymap = NULL]

\* KbState::de_init
de_init(s) ==
  LET s1 == Unref(s, "xkb_state_unref", s.xkb_state)
      s2 == [s1 EXCEPT !.xkb_state = NULL]
      s3 == Unref(s2, "xkb_keymap_unref", s2.xkb_keymap)
  IN [s3 EXCEPT !.xkb_keymap = NULL]

\* mutant: a keymap that does not compile is skipped
invalid_keymap_skipped == "ok"

\* what init_with_fd does with a keymap that does not compile
invalid_keymap == "panic"

\* KbState::init_with_fd; blob 0 does not compile
init_with_fd(s, mapOk, blob, eng) ==
  IF ~mapOk THEN [s |-> s, outcome |-> "panic"]
  ELSE LET compiled == IF blob = 0 THEN NULL ELSE NewHandle(s)
           s1 == Log(s, "xkb_keymap_new_from_string", <<s.xkb_context, blob>>, compiled)
       IN IF compiled = NULL THEN [s |-> s1, outcome |-> invalid_keymap]
          ELSE post_init(Alloc(s1, "keymap", s.xkb_context, [content |-> blob]),
                         compiled, eng)

\* the layouts the engine knows, an unknown one, and a string with a NUL
LayoutUs == <<117, 115>>
LayoutUnknown == <<122, 122>>
WithNul == <<117, 0, 115>>

\* the keymap xkb_keymap_new_from_names compiles, 0 when it cannot
NamesBlob(names) ==
  IF names.layout = None \/ names.layout = Some(LayoutUs) THEN 1 ELSE 0

\* KbState::init_with_rmlvo
init_with_rmlvo(s, names, eng) ==
  LET compiled == IF NamesBlob(names) = 0 THEN NULL ELSE NewHandle(s)
      s1 == Log(s, "xkb_keymap_new_from_names", <<s.xkb_context, names>>, compiled)
  IN IF compiled = NULL THEN [s |-> s1, outcome |-> "BadNames"]
     ELSE post_init(Alloc(s1, "keymap", s.xkb_context, [content |-> NamesBlob(names)]),
                    compiled, eng)

\* KbState::init_compose
init_compose(s, tableOk, composeStateOk) ==
  LET compose_table == IF tableOk THEN NewHandle(s) ELSE NULL
      s1 == Log(s, "xkb_compose_table_new_from_locale", <<s.xkb_context>>, compose_table)
  IN
  IF compose_table = NULL THEN s1
  ELSE LET s2 == Alloc(s1, "compose_table", s.xkb_context, <<>>)
           s3 == Log(s2, "xkb_compose_state_new", <<compose_table>>,
                     IF composeStateOk THEN NewHandle(s2) ELSE NULL)
       IN IF ~composeStateOk
          THEN Unref(s3, "xkb_compose_table_unref", compose_table)
          ELSE [Alloc(s3, "compose_state", compose_table,
                      [context |-> 0, prev_context |-> 0])
                  EXCEPT !.xkb_compose_table = compose_table,
                         !.xkb_compose_state = NewHandle(s3)]

\* KbState::new
KbState_new(s, found, contextOk, tableOk, composeStateOk) ==
  IF ~found THEN [s |-> s, outcome |-> "XKBNotFound"]
  ELSE LET s1 == Log(s, "xkb_context_new", <<>>,
                          IF contextOk THEN NewHandle(s) ELSE NULL) IN
       IF ~contextOk THEN [s |-> s1, outcome |-> "XKBNotFound"]
       ELSE LET me == [Alloc(s1, "context", NULL, <<>>) EXCEPT
                         !.xkb_context = NewHandle(s1),
                         !.xkb_keymap = NULL, !.xkb_state = NULL,
                         !.xkb_compose_table = NULL, !.xkb_compose_state = NULL,
                         !.mods_state = ModifiersState_new, !.locked = FALSE]
            IN [s |-> init_compose(me, tableOk, composeStateOk), outcome |-> "ok"]

\* mutant: the context is released first
drop_context_first(s) ==
  LET s0 == Unref(s, "xkb_context_unref", s.xkb_context)
      s1 == Unref(s0, "xkb_compose_state_unref", s0.xkb_compose_state)
      s2 == Unref(s1, "xkb_compose_table_unref", s1.xkb_compose_table)
      s3 == Unref(s2, "xkb_state_unref", s2.xkb_state)
  IN Unref(s3, "xkb_keymap_unref", s3.xkb_keymap)

\* impl Drop for KbState
drop(s) ==
  LET s1 == Unref(s, "xkb_compose_state_unref", s.xkb_compose_state)
      s2 == Unref(s1, "xkb_compose_table_unref", s1.xkb_compose_table)
      s3 == Unref(s2, "xkb_state_unref", s2.xkb_state)
      s4 == Unref(s3, "xkb_keymap_unref", s3.xkb_keymap)
  IN Unref(s4, "xkb_context_unref", s4.xkb_context)

\* register_kbd_from_rmlvo::to_cstring: CString::new fails on an inner NUL
to_cstring(str) ==
  IF str = None THEN [ok |-> TRUE, val |-> None]
  ELSE IF \E i \in 1..Len(str.val) : str.val[i] = 0
       THEN [ok |-> FALSE, err |-> "BadNames"]
       ELSE [ok |-> TRUE, val |-> Some(str.val \o <<0>>)]

\* what is read through a pointer into a string that has been freed
Garbage == <<255, 255>>
FreedReads == {"intact", "garbage"}

\* map_or(ptr::null(), |s| s.as_ptr()): the CString is dropped when the closure
\* returns, so the engine reads the string up to its terminator through a
\* dangling pointer
FromCString(c, freed) ==
  IF c = None THEN None
  ELSE IF freed = "intact" THEN Some(Pop(c.val)) ELSE Some(Garbage)

(***************************************************************************)
(* wl_keyboard_implementation: the closures, as functions of `s`.          *)
(***************************************************************************)
NoCallback == [cb |-> "none"]

\* mutant: the lock is not consulted
keymap_never_ignored(s) == FALSE

\* state is locked, ignore keymap updates
keymap_ignored(s) == s.locked

\* mutant: releasing the keymap ends the compose session too
keymap_impl_ending_compose(s, format, mapOk, blob, eng) ==
  IF keymap_ignored(s) THEN [s |-> s, outcome |-> "ok"]
  ELSE LET s0 == IF ready(s) THEN de_init(s) ELSE s
           s1 == IF ready(s)
                 THEN [Unref(s0, "xkb_compose_state_unref", s0.xkb_compose_state)
                         EXCEPT !.xkb_compose_state = NULL]
                 ELSE s0
       IN
       IF format = "XkbV1" THEN init_with_fd(s1, mapOk, blob, eng)
       ELSE [s |-> s1, outcome |-> "ok"]

\* the keymap closure
keymap_impl(s, format, mapOk, blob, eng) ==
  IF keymap_ignored(s) THEN [s |-> s, outcome |-> "ok"]
  ELSE LET s1 == IF ready(s) THEN de_init(s) ELSE s IN
       IF format = "XkbV1" THEN init_with_fd(s1, mapOk, blob, eng)
       ELSE [s |-> s1, outcome |-> "ok"]

\* rawkeys.iter().map(|k| state.get_one_sym_raw(*k)).collect()
RECURSIVE MapSyms(_, _)
MapSyms(s, rawkeys) ==
  IF rawkeys = <<>> THEN [s |-> s, ret |-> <<>>]
  ELSE LET r == get_one_sym_raw(s, Head(rawkeys))
           rest == MapSyms(r.s, Tail(rawkeys))
       IN [s |-> rest.s, ret |-> <<r.ret>> \o rest.ret]

\* mutant: the symbols are reported last key first
enter_impl_reversed(s, serial, surface, rawkeys) ==
  LET r == MapSyms(s, rawkeys) IN
  [s |-> r.s,
   handler |-> [cb |-> "enter", serial |-> serial, surface |-> surface,
                mods |-> r.s.mods_state, rawkeys |-> rawkeys,
                keysyms |-> [i \in 1..Len(r.ret) |-> r.ret[Len(r.ret) + 1 - i]]]]

\* the enter closure
enter_impl(s, serial, surface, rawkeys) ==
  LET r == MapSyms(s, rawkeys) IN
  [s |-> r.s,
   handler |-> [cb |-> "enter", serial |-> serial, surface |-> surface,
                mods |-> r.s.mods_state, rawkeys |-> rawkeys, keysyms |-> r.ret]]

\* mutant: losing the focus clears the modifier snapshot
leave_impl_clearing(s, serial, surface) ==
  [s |-> [s EXCEPT !.mods_state = ModifiersState_new],
   handler |-> [cb |-> "leave", serial |-> serial, surface |-> surface]]

\* the leave closure
leave_impl(s, serial, surface) ==
  [s |-> s, handler |-> [cb |-> "leave", serial |-> serial, surface |-> surface]]

\* mutant: compose is fed on a release too
feeds_compose_always(key_state) == TRUE

\* compose is fed on a press only
feeds_compose(key_state) == key_state = "Pressed"

\* mutant: only a press that was not fed at all gets no text
text_ignored_unless_fed(feed_result) == feed_result = None

\* a press whose feed was not accepted gets no text
text_ignored(feed_result) == feed_result # Some("XKB_COMPOSE_FEED_ACCEPTED")

\* mutant: a composed sequence is reported with the text of its last key
text_for_status_raw(s, status, rawkey) ==
  CASE status = "XKB_COMPOSE_COMPOSED" -> get_utf8_raw(s, rawkey)
    [] status = "XKB_COMPOSE_NOTHING" -> get_utf8_raw(s, rawkey)
    [] OTHER -> [s |-> s, ret |-> None]

\* the text of a press accepted by compose, by the status read after the feed
text_for_status(s, status, rawkey) ==
  CASE status = "XKB_COMPOSE_COMPOSED" -> compose_get_utf8(s)
    [] status = "XKB_COMPOSE_NOTHING" -> get_utf8_raw(s, rawkey)
    [] OTHER -> [s |-> s, ret |-> None]

\* mutant: the text is read from the session on every key event
key_impl_rereading(s, serial, time, rawkey, key_state, ignore) ==
  LET r1 == get_one_sym_raw(s, rawkey)
      sym == r1.ret
      r2 == IF feeds_compose(key_state) THEN compose_feed(r1.s, sym, ignore)
            ELSE [s |-> r1.s, ret |-> None]
      ignore_text == FALSE
      r3 == IF ignore_text THEN [s |-> r2.s, ret |-> None]
            ELSE LET st == compose_status(r2.s) IN
                 IF st.ret # None THEN text_for_status(st.s, st.ret.val, rawkey)
                 ELSE get_utf8_raw(st.s, rawkey)
  IN [s |-> r3.s,
      handler |-> [cb |-> "key", serial |-> serial, time |-> time,
                   mods |-> r3.s.mods_state, rawkey |-> rawkey, keysym |-> sym,
                   state |-> key_state, utf8 |-> r3.ret]]

\* the key closure; `ignore` is the engine's choice in xkb_compose_state_feed
key_impl(s, serial, time, rawkey, key_state, ignore) ==
  LET r1 == get_one_sym_raw(s, rawkey)
      sym == r1.ret
      r2 == IF feeds_compose(key_state) THEN compose_feed(r1.s, sym, ignore)
            ELSE [s |-> r1.s, ret |-> None]
      ignore_text == IF feeds_compose(key_state) THEN text_ignored(r2.ret) ELSE TRUE
      r3 == IF ignore_text THEN [s |-> r2.s, ret |-> None]
            ELSE LET st == compose_status(r2.s) IN
                 IF st.ret # None THEN text_for_status(st.s, st.ret.val, rawkey)
                 ELSE get_utf8_raw(st.s, rawkey)
  IN [s |-> r3.s,
      handler |-> [cb |-> "key", serial |-> serial, time |-> time,
                   mods |-> r3.s.mods_state, rawkey |-> rawkey, keysym |-> sym,
                   state |-> key_state, utf8 |-> r3.ret]]

\* the modifiers closure
modifiers_impl(s, mods_depressed, mods_latched, mods_locked, group) ==
  update_modifiers(s, mods_depressed, mods_latched, mods_locked, group)

\* the repeat_info closure
repeat_info_impl(s, rate, delay) ==
  [s |-> s, handler |-> [cb |-> "repeat_info", rate |-> rate, delay |-> delay]]

\* register_kbd
register_kbd(s, found, contextOk, tableOk, composeStateOk) ==
  KbState_new(s, found, contextOk, tableOk, composeStateOk)

\* mutant: the state is leaked when the names do not compile
register_kbd_from_rmlvo_leaking(s, rmlvo, found, contextOk, tableOk, composeStateOk, eng, freed) ==
  LET n == KbState_new(s, found, contextOk, tableOk, composeStateOk) IN
  IF n.outcome # "ok" THEN n
  ELSE LET rules == to_cstring(rmlvo.rules)
           model == to_cstring(rmlvo.model)
           layout == to_cstring(rmlvo.layout)
           variant == to_cstring(rmlvo.variant)
           options == to_cstring(rmlvo.options)
       IN IF ~rules.ok \/ ~model.ok \/ ~layout.ok \/ ~variant.ok \/ ~options.ok
          THEN [s |-> drop(n.s), outcome |-> "BadNames"]
          ELSE LET xkb_names == [rules |-> FromCString(rules.val, freed),
                                 model |-> FromCString(model.val, freed),
                                 layout |-> FromCString(layout.val, freed),
                                 variant |-> FromCString(variant.val, freed),
                                 options |-> FromCString(options.val, freed)]
                   r == init_with_rmlvo(n.s, xkb_names, eng)
               IN CASE r.outcome = "BadNames" -> [s |-> r.s, outcome |-> "BadNames"]
                    [] r.outcome = "crash" -> r
                    [] OTHER -> [s |-> [r.s EXCEPT !.locked = TRUE], outcome |-> "ok"]

\* register_kbd_from_rmlvo
register_kbd_from_rmlvo(s, rmlvo, found, contextOk, tableOk, composeStateOk, eng, freed) ==
  LET n == KbState_new(s, found, contextOk, tableOk, composeStateOk) IN
  IF n.outcome # "ok" THEN n
  ELSE LET rules == to_cstring(rmlvo.rules)
           model == to_cstring(rmlvo.model)
           layout == to_cstring(rmlvo.layout)
           variant == to_cstring(rmlvo.variant)
           options == to_cstring(rmlvo.options)
       IN IF ~rules.ok \/ ~model.ok \/ ~layout.ok \/ ~variant.ok \/ ~options.ok
          THEN [s |-> drop(n.s), outcome |-> "BadNames"]
          ELSE LET xkb_names == [rules |-> FromCString(rules.val, freed),
                                 model |-> FromCString(model.val, freed),
                                 layout |-> FromCString(layout.val, freed),
                                 variant |-> FromCString(variant.val, freed),
                                 options |-> FromCString(options.val, freed)]
                   r == init_with_rmlvo(n.s, xkb_names, eng)
               IN CASE r.outcome = "BadNames" -> [s |-> drop(r.s), outcome |-> "BadNames"]
                    [] r.outcome = "crash" -> r
                    [] OTHER -> [s |-> [r.s EXCEPT !.locked = TRUE], outcome |-> "ok"]

(***************************************************************************)
(* The state machine.                                                      *)
(***************************************************************************)
Cur ==
  [xkb_context |-> xkb_context, xkb_keymap |-> xkb_keymap, xkb_state |-> xkb_state,
   xkb_compose_table |-> xkb_compose_table, xkb_compose_state |-> xkb_compose_state,
   mods_state |-> mods_state, locked |-> locked, heap |-> heap, calls |-> <<>>]

Commit(s) ==
  /\ xkb_context' = s.xkb_context
  /\ xkb_keymap' = s.xkb_keymap
  /\ xkb_state' = s.xkb_state
  /\ xkb_compose_table' = s.xkb_compose_table
  /\ xkb_compose_state' = s.xkb_compose_state
  /\ mods_state' = s.mods_state
  /\ locked' = s.locked
  /\ heap' = s.heap
  /\ calls' = s.calls

Init ==
  /\ pc = "start"
  /\ result = "none"
  /\ xkb_context = NULL
  /\ xkb_keymap = NULL
  /\ xkb_state = NULL
  /\ xkb_compose_table = NULL
  /\ xkb_compose_state = NULL
  /\ mods_state = ModifiersState_new
  /\ locked = FALSE
  /\ heap = <<>>
  /\ calls = <<>>
  /\ handler = NoCallback
  /\ event = [kind |-> "none"]

\* the outcomes of construction the engine decides
NewOutcomes ==
  {<<FALSE, FALSE, FALSE, FALSE>>, <<TRUE, FALSE, FALSE, FALSE>>,
   <<TRUE, TRUE, FALSE, FALSE>>, <<TRUE, TRUE, TRUE, FALSE>>,
   <<TRUE, TRUE, TRUE, TRUE>>}

OptStrings == {None, Some(LayoutUs), Some(LayoutUnknown), Some(WithNul)}

RMLVOs ==
  [rules : {None}, model : {None, Some(WithNul)}, layout : OptStrings,
   variant : {None}, options : {None, Some(WithNul)}]

PcAfter(outcome) ==
  CASE outcome = "ok" -> "registered"
    [] outcome = "panic" -> "panicked"
    [] outcome = "crash" -> "crashed"
    [] OTHER -> "failed"

RegisterKbd ==
  /\ pc = "start"
  /\ \E o \in NewOutcomes :
       LET r == register_kbd(Cur, o[1], o[2], o[3], o[4]) IN
       /\ Commit(r.s)
       /\ pc' = PcAfter(r.outcome)
       /\ result' = IF r.outcome = "ok" THEN "Ok" ELSE r.outcome
  /\ handler' = NoCallback
  /\ event' = [kind |-> "register_kbd"]

RegisterKbdFromRmlvo ==
  /\ pc = "start"
  /\ \E o \in NewOutcomes, rmlvo \in RMLVOs, eng \in EngOutcomes, freed \in FreedReads :
       LET r == register_kbd_from_rmlvo(Cur, rmlvo, o[1], o[2], o[3], o[4], eng, freed) IN
       /\ Commit(r.s)
       /\ pc' = PcAfter(r.outcome)
       /\ result' = CASE r.outcome = "ok" -> "Ok"
                      [] r.outcome = "crash" -> "none"
                      [] OTHER -> r.outcome
       /\ event' = [kind |-> "register_kbd_from_rmlvo", rmlvo |-> rmlvo]
  /\ handler' = NoCallback

Keymap ==
  /\ pc = "registered"
  /\ \E format \in KeymapFormats, mapOk \in BOOLEAN, blob \in Blobs, eng \in EngOutcomes :
       /\ format = "NoKeymap" => (mapOk /\ blob = 0 /\ eng = EngOk)
       /\ (~mapOk \/ blob = 0) => eng = EngOk
       /\ ~mapOk => blob = 0
       /\ (format = "XkbV1" /\ blob # 0)
             => Cardinality(HandlesOf("keymap")) < MaxKeymaps
       /\ LET r == keymap_impl(Cur, format, mapOk, blob, eng) IN
          /\ Commit(r.s)
          /\ pc' = PcAfter(r.outcome)
       /\ event' = [kind |-> "keymap", format |-> format, mapOk |-> mapOk,
                    blob |-> blob, stateOk |-> eng.stateOk]
  /\ handler' = NoCallback
  /\ UNCHANGED result

Enter ==
  /\ pc = "registered"
  /\ \E serial \in Serials, surface \in Surfaces, n \in 0..MaxPressed :
       \E rawkeys \in PressedLists(n) :
         LET r == enter_impl(Cur, serial, surface, rawkeys) IN
         /\ Commit(r.s)
         /\ handler' = r.handler
         /\ event' = [kind |-> "enter", serial |-> serial, surface |-> surface,
                      keys |-> rawkeys]
  /\ UNCHANGED <<pc, result>>

Leave ==
  /\ pc = "registered"
  /\ \E serial \in Serials, surface \in Surfaces :
       LET r == leave_impl(Cur, serial, surface) IN
       /\ Commit(r.s)
       /\ handler' = r.handler
       /\ event' = [kind |-> "leave", serial |-> serial, surface |-> surface]
  /\ UNCHANGED <<pc, result>>

Key ==
  /\ pc = "registered"
  /\ \E serial \in Serials, time \in Times, rawkey \in Keycodes, key_state \in KeyStates,
        ignore \in BOOLEAN :
       LET r == key_impl(Cur, serial, time, rawkey, key_state, ignore) IN
       /\ ignore => (key_state = "Pressed" /\ xkb_state # NULL /\ xkb_compose_state # NULL)
       /\ Commit(r.s)
       /\ handler' = r.handler
       /\ event' = [kind |-> "key", serial |-> serial, time |-> time,
                    key |-> rawkey, state |-> key_state]
  /\ UNCHANGED <<pc, result>>

Modifiers ==
  /\ pc = "registered"
  /\ \E d \in DepressedValues, l \in LatchedValues, k \in LockedValues, g \in GroupValues :
       /\ Commit(modifiers_impl(Cur, d, l, k, g))
       /\ event' = [kind |-> "modifiers", mods_depressed |-> d, mods_latched |-> l,
                    mods_locked |-> k, group |-> g]
  /\ handler' = NoCallback
  /\ UNCHANGED <<pc, result>>

RepeatInfo ==
  /\ pc = "registered"
  /\ \E rate \in Rates, delay \in Delays :
       LET r == repeat_info_impl(Cur, rate, delay) IN
       /\ Commit(r.s)
       /\ handler' = r.handler
       /\ event' = [kind |-> "repeat_info", rate |-> rate, delay |-> delay]
  /\ UNCHANGED <<pc, result>>

\* the keyboard state is destroyed: normally, or while a panic unwinds
Drop ==
  /\ pc \in {"registered", "panicked"}
  /\ Commit(drop(Cur))
  /\ pc' = "dropped"
  /\ handler' = NoCallback
  /\ event' = [kind |-> "drop"]
  /\ UNCHANGED result

Next ==
  \/ RegisterKbd
  \/ RegisterKbdFromRmlvo
  \/ Keymap
  \/ Enter
  \/ Leave
  \/ Key
  \/ Modifiers
  \/ RepeatInfo
  \/ Drop

Spec == Init /\ [][Next]_vars

(***************************************************************************)
(* Vocabulary of the properties.                                           *)
(***************************************************************************)
\* the engine calls of the last operation with the given name
CallsOf(op) == {i \in 1..Len(calls) : calls[i].op = op}

Called(op) == CallsOf(op) # {}

\* what the last operation's compose feed returned, "none" without a feed
FeedResult ==
  IF Called("xkb_compose_state_feed")
  THEN calls[CHOOSE i \in CallsOf("xkb_compose_state_feed") : TRUE].ret
  ELSE "none"

IsReady == xkb_state # NULL

\* the symbol and text the engine gives the wire keycode k right now
DirectSym(k) ==
  IF IsReady THEN EngineSym(heap[xkb_state].data, k + KeycodeOffset) ELSE 0

DirectText(k) ==
  IF ~IsReady THEN None
  ELSE LET text == EngineUtf8(heap[xkb_state].data, k + KeycodeOffset)
       IN IF text = <<>> THEN None ELSE Some(text)

\* the compose status and text of the session right now
ComposeStatusNow == ComposeStatusOf(heap[xkb_compose_state].data)

ComposedText ==
  LET text == ComposeText(heap[xkb_compose_state].data.context)
  IN IF text = <<>> THEN None ELSE Some(text)

KeyPressHandled == handler.cb = "key" /\ handler.state = "Pressed"

\* the snapshot the engine's per-name queries give for the live state
EngineSnapshot(h) ==
  LET on(name) == ModIndex(h[xkb_state].data.content, name) \in Effective(h[xkb_state].data)
  IN [ctrl |-> on("Control"), alt |-> on("Mod1"), shift |-> on("Shift"),
      caps_lock |-> on("Lock"), logo |-> on("Mod4"), num_lock |-> on("Mod2")]

(***************************************************************************)
(* C1.  Without a compose session, every key press handled while a keymap  *)
(* is loaded is reported with the text of the direct resolution of its     *)
(* keycode.  The key closure reports no text at all: compose_feed returns  *)
(* None, which differs from Some(ACCEPTED), so the text is ignored.        *)
(***************************************************************************)
C1_NoComposeDirectText ==
  (KeyPressHandled /\ IsReady /\ xkb_compose_state = NULL)
     => handler.utf8 = DirectText(handler.rawkey)

(***************************************************************************)
(* C2.  As claimed: a key press whose feed is rejected by compose is       *)
(* reported with the direct resolution of its keycode.                     *)
(***************************************************************************)
C2_RejectedFeedDirectText ==
  (KeyPressHandled /\ FeedResult = "XKB_COMPOSE_FEED_IGNORED")
     => handler.utf8 = DirectText(handler.rawkey)

(***************************************************************************)
(* C2, amended.  A key press whose feed is rejected by compose is reported *)
(* with no text, for every keycode; neither the compose status nor the     *)
(* direct resolution is consulted.                                         *)
(***************************************************************************)
C2_RejectedFeedNoText ==
  (KeyPressHandled /\ FeedResult = "XKB_COMPOSE_FEED_IGNORED")
     => /\ handler.utf8 = None
        /\ ~Called("xkb_compose_state_get_status")
        /\ ~Called("xkb_state_key_get_utf8")

C2_Witness ==
  /\ KeyPressHandled
  /\ FeedResult = "XKB_COMPOSE_FEED_IGNORED"
  /\ DirectText(handler.rawkey) # None

(***************************************************************************)
(* C3.  A key press whose symbol compose accepts is reported with the text *)
(* the status read after the feed selects: Composed gives the compose      *)
(* session's text, Nothing the direct resolution of the keycode, Composing *)
(* and Cancelled no text.                                                  *)
(***************************************************************************)
C3_AcceptedFeedTextByStatus ==
  (KeyPressHandled /\ FeedResult = "XKB_COMPOSE_FEED_ACCEPTED")
     => handler.utf8 =
          CASE ComposeStatusNow = "XKB_COMPOSE_COMPOSED" -> ComposedText
            [] ComposeStatusNow = "XKB_COMPOSE_NOTHING" -> DirectText(handler.rawkey)
            [] OTHER -> None

C3_Witness ==
  /\ KeyPressHandled
  /\ FeedResult = "XKB_COMPOSE_FEED_ACCEPTED"
  /\ ComposeStatusNow = "XKB_COMPOSE_COMPOSED"
  /\ handler.utf8 = Some(<<195, 161>>)

(***************************************************************************)
(* C4.  A key release never feeds compose and never emits text: it leaves  *)
(* the engine's state, the compose state included, as it was, and the key  *)
(* callback gets no text, with the resolved symbol, the raw keycode and    *)
(* the key state.                                                          *)
(***************************************************************************)
C4_ReleaseStep ==
  (event'.kind = "key" /\ event'.state = "Released")
     => /\ heap' = heap
        /\ \A i \in 1..Len(calls') : calls'[i].op # "xkb_compose_state_feed"
        /\ handler'.cb = "key"
        /\ handler'.utf8 = None
        /\ handler'.keysym = DirectSym(event'.key)
        /\ handler'.rawkey = event'.key
        /\ handler'.state = "Released"

C4_ReleaseNoFeedNoText == [][C4_ReleaseStep]_vars

C4_Witness ==
  /\ handler.cb = "key"
  /\ handler.state = "Released"
  /\ IsReady
  /\ xkb_compose_state # NULL
  /\ ComposeStatusNow = "XKB_COMPOSE_COMPOSING"
  /\ DirectText(handler.rawkey) # None

(***************************************************************************)
(* C5.  A keyboard state built from RMLVO names is locked: registration    *)
(* leaves it locked with its keymap, and no later notification changes the *)
(* keymap handle, the interpretation state handle or the readiness; a      *)
(* keymap notification of either format makes no engine call at all.       *)
(***************************************************************************)
C5_LockedStep ==
  (pc = "registered" /\ locked /\ event'.kind # "drop")
     => /\ xkb_keymap' = xkb_keymap
        /\ xkb_state' = xkb_state
        /\ locked'
        /\ pc' = "registered"
        /\ event'.kind = "keymap" => (calls' = <<>> /\ heap' = heap)

C5_LockedAtRegistration ==
  (event.kind = "register_kbd_from_rmlvo" /\ pc = "registered")
     => (locked /\ xkb_keymap # NULL /\ Live(xkb_keymap))

C5_RmlvoKeymapLocked == [](C5_LockedAtRegistration) /\ [][C5_LockedStep]_vars

C5_Witness ==
  /\ pc = "registered"
  /\ locked
  /\ IsReady
  /\ event.kind = "keymap"
  /\ event.format = "XkbV1"
  /\ event.blob = 2
  /\ heap[xkb_state].data.content = 1

(***************************************************************************)
(* C6.  Replacing a loaded keymap releases before it installs: every       *)
(* interpretation state the engine created, and the keymap it was created  *)
(* from, is released exactly once as soon as it is no longer the current   *)
(* one (at the latest by the teardown), never twice; a keymap notification *)
(* that releases does so before it compiles; so at most one interpretation *)
(* state is live in every reachable state.                                 *)
(***************************************************************************)
LiveStates == {h \in HandlesOf("state") : heap[h].unrefs = 0}

C6_ReleaseBeforeInstall ==
  /\ Cardinality(LiveStates) <= 1
  /\ \A h \in HandlesOf("state") :
       /\ heap[h].unrefs <= 1
       /\ heap[heap[h].parent].unrefs = heap[h].unrefs
       /\ (h # xkb_state \/ pc = "dropped") => heap[h].unrefs = 1
       /\ (h = xkb_state /\ pc # "dropped") => heap[h].unrefs = 0
  /\ (event.kind = "keymap" /\ Called("xkb_state_unref"))
       => /\ calls[1].op = "xkb_state_unref"
          /\ calls[2].op = "xkb_keymap_unref"
          /\ calls[1].args[1] \in HandlesOf("state")
          /\ calls[2].args[1] = heap[calls[1].args[1]].parent
          /\ \A i \in CallsOf("xkb_keymap_new_from_string") \cup CallsOf("xkb_state_new") :
               i > 2

C6_Witness ==
  /\ event.kind = "keymap"
  /\ Called("xkb_state_unref")
  /\ Called("xkb_keymap_new_from_string")
  /\ IsReady
  /\ Cardinality(HandlesOf("state")) = 2
  /\ Cardinality(LiveStates) = 1

(***************************************************************************)
(* C7.  As claimed: a text-v1 keymap notification whose bytes do not       *)
(* compile does not end the processing of notifications.                   *)
(***************************************************************************)
MalformedKeymapEvent ==
  event.kind = "keymap" /\ event.format = "XkbV1" /\ event.mapOk /\ event.blob = 0

C7_MalformedRecoverable == MalformedKeymapEvent => pc = "registered"

(***************************************************************************)
(* C7, amended.  A text-v1 keymap notification whose bytes do not compile  *)
(* is fatal unless the state is locked: the keymap closure panics after    *)
(* the previous interpretation state, if any, was released, so the         *)
(* keyboard state is left not ready with no interpretation state live, and *)
(* no later notification is handled (only the teardown can follow).  On a  *)
(* locked state the notification is ignored.                               *)
(***************************************************************************)
C7_MalformedOutcome ==
  MalformedKeymapEvent
     => IF locked THEN pc = "registered"
        ELSE /\ pc = "panicked"
             /\ xkb_state = NULL
             /\ LiveStates = {}

C7_PanicStep == pc = "panicked" => (event'.kind = "drop" /\ pc' = "dropped")

C7_MalformedIsFatal == [](C7_MalformedOutcome) /\ [][C7_PanicStep]_vars

C7_Witness ==
  /\ MalformedKeymapEvent
  /\ pc = "panicked"
  /\ Called("xkb_state_unref")
  /\ HandlesOf("state") # {}

(***************************************************************************)
(* C8.  A keymap notification with format 'none' is a no-op: it leaves the *)
(* keymap handle, the interpretation state, the readiness and the modifier *)
(* snapshot unchanged and releases nothing.  The keymap closure releases   *)
(* the loaded keymap before it looks at the format.                        *)
(***************************************************************************)
C8_NoKeymapStep ==
  (event'.kind = "keymap" /\ event'.format = "NoKeymap")
     => /\ UNCHANGED <<xkb_keymap, xkb_state, mods_state, heap>>
        /\ calls' = <<>>

C8_NoKeymapIsNoOp == [][C8_NoKeymapStep]_vars

(***************************************************************************)
(* C9.  A modifiers notification handled while ready: when the set of      *)
(* changed components the engine returns has no effective-modifiers bit,   *)
(* the snapshot is unchanged and no per-name query is made; when it has,   *)
(* each of the six booleans is the engine's per-name answer.               *)
(***************************************************************************)
C9_ModifiersStep ==
  (event'.kind = "modifiers" /\ IsReady)
     => /\ calls'[1].op = "xkb_state_update_mask"
        /\ calls'[1].args = <<xkb_state, event'.mods_depressed, event'.mods_latched,
                              event'.mods_locked, 0, 0, event'.group>>
        /\ IF "XKB_STATE_MODS_EFFECTIVE" \in calls'[1].ret
           THEN /\ mods_state' = EngineSnapshot(heap')
                /\ Len(calls') = 7
           ELSE /\ mods_state' = mods_state
                /\ Len(calls') = 1

C9_SnapshotFollowsEffective == [][C9_ModifiersStep]_vars

C9_Witness ==
  /\ event.kind = "modifiers"
  /\ IsReady
  /\ Len(calls) = 1
  /\ calls[1].ret # {}
  /\ mods_state.ctrl
  /\ ~mods_state.alt

(***************************************************************************)
(* C10.  While the state is not ready, symbol resolution gives 0 and text  *)
(* resolution gives none for every keycode, without an engine call; every  *)
(* key notification is then reported with keysym 0 and no text, every      *)
(* enter notification with all keysyms 0.                                  *)
(***************************************************************************)
C10_NotReadyEmpty ==
  (pc = "registered" /\ ~IsReady)
     => /\ \A k \in Keycodes :
             /\ get_one_sym_raw(Cur, k) = [s |-> Cur, ret |-> 0]
             /\ get_utf8_raw(Cur, k) = [s |-> Cur, ret |-> None]
        /\ handler.cb = "key"
             => (handler.keysym = 0 /\ handler.utf8 = None /\ calls = <<>>)
        /\ handler.cb = "enter"
             => /\ Len(handler.keysyms) = Len(handler.rawkeys)
                /\ \A i \in 1..Len(handler.keysyms) : handler.keysyms[i] = 0
                /\ calls = <<>>

C10_Witness ==
  /\ pc = "registered"
  /\ ~IsReady
  /\ xkb_keymap = NULL
  /\ handler.cb = "key"
  /\ handler.state = "Pressed"
  /\ handler.rawkey = 2
  /\ xkb_compose_state # NULL

(***************************************************************************)
(* C11.  The two-phase UTF-8 query.  `r` is what get_utf8_raw or           *)
(* compose_get_utf8 returns when called in the current state, `op` the     *)
(* engine entry point and `text` the engine's text.  TwoPhase(r, op, text, *)
(* extra) says: the first call passes no buffer; with N the number it      *)
(* returns, a result exists iff N + extra > 1, and then a second call      *)
(* passes a buffer of exactly N + extra bytes and the result is the filled *)
(* buffer without its last byte.                                           *)
(***************************************************************************)
TwoPhase(r, op, text, extra) ==
  LET c == r.s.calls
      n == c[1].ret
      size == n + extra
      buflen(i) == c[i].args[Len(c[i].args) - 1]
      sizearg(i) == c[i].args[Len(c[i].args)]
  IN /\ Len(c) >= 1
     /\ c[1].op = op
     /\ buflen(1) = 0
     /\ sizearg(1) = 0
     /\ IF size <= 1
        THEN Len(c) = 1 /\ r.ret = None
        ELSE /\ Len(c) = 2
             /\ c[2].op = op
             /\ buflen(2) = size
             /\ sizearg(2) = size
             /\ r.ret = Some(Pop(Fill(Uninit(size), text, size)))

TwoPhaseEverywhere(extra) ==
  (pc = "registered" /\ IsReady)
     => /\ \A k \in Keycodes :
             TwoPhase(get_utf8_raw(Cur, k), "xkb_state_key_get_utf8",
                      EngineUtf8(heap[xkb_state].data, k + KeycodeOffset), extra)
        /\ xkb_compose_state # NULL
             => TwoPhase(compose_get_utf8(Cur), "xkb_compose_state_get_utf8",
                         ComposeText(heap[xkb_compose_state].data.context), extra)

(***************************************************************************)
(* C11, as claimed: with N the size the engine reports on the null-buffer  *)
(* call, the fill call gets a buffer of exactly N bytes, and the result is *)
(* none when N <= 1.                                                       *)
(***************************************************************************)
C11_BufferOfReportedSize == TwoPhaseEverywhere(0)

(***************************************************************************)
(* C11, amended.  The engine reports the length N of the text without its  *)
(* terminator: the fill call gets a buffer of exactly N + 1 bytes, the     *)
(* result is the filled buffer without its last byte (the terminator), and *)
(* the result is none, with no fill call, when N + 1 <= 1.                 *)
(***************************************************************************)
C11_BufferOfReportedSizePlusOne == TwoPhaseEverywhere(1)

C11_Witness ==
  /\ KeyPressHandled
  /\ ~Called("xkb_compose_state_get_utf8")
  /\ Cardinality(CallsOf("xkb_state_key_get_utf8")) = 2
  /\ handler.utf8 = Some(<<XKB_KEY_A>>)
  /\ xkb_compose_state # NULL
  /\ ComposeStatusNow = "XKB_COMPOSE_NOTHING"

(***************************************************************************)
(* C12.  Teardown ordering.  Whenever the keyboard state has just been     *)
(* destroyed (dropped after use, while a panic unwinds, or on the BadNames *)
(* return of register_kbd_from_rmlvo), the last engine call releases the   *)
(* context, the context is released exactly once, and each of the compose  *)
(* state, compose table, interpretation state and keymap that was held has *)
(* been released, once, by an earlier call.                                *)
(***************************************************************************)
Destroyed == event.kind = "drop" \/ (pc = "failed" /\ result = "BadNames")

ReleasesOf(op, h) == {i \in CallsOf(op) : calls[i].args = <<h>>}

HeldAtTeardown ==
  {<<"xkb_compose_state_unref", xkb_compose_state>>,
   <<"xkb_compose_table_unref", xkb_compose_table>>,
   <<"xkb_state_unref", xkb_state>>,
   <<"xkb_keymap_unref", xkb_keymap>>}

C12_ContextReleasedLast ==
  Destroyed
     => /\ Len(calls) >= 1
        /\ ReleasesOf("xkb_context_unref", xkb_context) = {Len(calls)}
        /\ CallsOf("xkb_context_unref") = {Len(calls)}
        /\ heap[xkb_context].unrefs = 1
        /\ \A p \in HeldAtTeardown :
             p[2] # NULL
                => /\ \E i \in ReleasesOf(p[1], p[2]) : i < Len(calls)
                   /\ Cardinality(ReleasesOf(p[1], p[2])) = 1
                   /\ heap[p[2]].unrefs = 1

C12_Witness ==
  /\ event.kind = "drop"
  /\ xkb_compose_state # NULL
  /\ xkb_compose_table # NULL
  /\ xkb_state # NULL
  /\ xkb_keymap # NULL
  /\ heap[xkb_context].unrefs = 1

(***************************************************************************)
(* C13.  When xkb_keymap_new_from_names returns null during                *)
(* register_kbd_from_rmlvo, the call returns BadNames, nothing is          *)
(* registered with the event queue (no notification can ever be handled),  *)
(* the state is neither locked nor ready and no interpretation state was   *)
(* asked for, and every handle acquired during the attempt, the context    *)
(* and the compose table and state among them, has been released once.     *)
(***************************************************************************)
NamesRejected ==
  /\ event.kind = "register_kbd_from_rmlvo"
  /\ \E i \in CallsOf("xkb_keymap_new_from_names") : calls[i].ret = NULL

C13_BadNamesProducesNothing ==
  NamesRejected
     => /\ result = "BadNames"
        /\ pc = "failed"
        /\ ~ENABLED Next
        /\ handler = NoCallback
        /\ ~locked
        /\ xkb_state = NULL
        /\ xkb_keymap = NULL
        /\ ~Called("xkb_state_new")
        /\ xkb_context # NULL
        /\ \A h \in 1..Len(heap) : heap[h].unrefs = 1
        /\ \A h \in {xkb_compose_table, xkb_compose_state} \ {NULL} :
             heap[h].kind \in {"compose_table", "compose_state"}

C13_Witness ==
  /\ NamesRejected
  /\ event.rmlvo.layout = Some(LayoutUnknown)
  /\ xkb_compose_state # NULL
  /\ heap[xkb_compose_state].unrefs = 1
  /\ heap[xkb_context].unrefs = 1

(***************************************************************************)
(* C14.  When register_kbd_from_rmlvo has built its keyboard state and one *)
(* of the RMLVO strings holds an embedded NUL, the error returned is       *)
(* InvalidParameter and not BadNames.  to_cstring maps the conversion      *)
(* error to BadNames, the only other variant of MappedKeyboardError.       *)
(***************************************************************************)
HasNul(str) == str # None /\ \E i \in 1..Len(str.val) : str.val[i] = 0

ConversionFailed ==
  /\ event.kind = "register_kbd_from_rmlvo"
  /\ xkb_context # NULL
  /\ \/ HasNul(event.rmlvo.rules)
     \/ HasNul(event.rmlvo.model)
     \/ HasNul(event.rmlvo.layout)
     \/ HasNul(event.rmlvo.variant)
     \/ HasNul(event.rmlvo.options)

C14_NulIsInvalidParameter ==
  ConversionFailed => (result = "InvalidParameter" /\ result # "BadNames")

(***************************************************************************)
(* SpecEnter: the keyboard with enter notifications that report up to      *)
(* MaxEntered keys, without key, leave and repeat_info notifications (none *)
(* of which changes what an enter notification reads), and with keymap     *)
(* notifications only until a first keymap has compiled.                   *)
(***************************************************************************)
FirstKeymap == Keymap /\ HandlesOf("keymap") = {}

EnterPressed ==
  /\ pc = "registered"
  /\ \E serial \in Serials, surface \in Surfaces, n \in 0..MaxEntered :
       \E rawkeys \in PressedLists(n) :
         LET r == enter_impl(Cur, serial, surface, rawkeys) IN
         /\ Commit(r.s)
         /\ handler' = r.handler
         /\ event' = [kind |-> "enter", serial |-> serial, surface |-> surface,
                      keys |-> rawkeys]
  /\ UNCHANGED <<pc, result>>

NextEnter ==
  \/ RegisterKbd
  \/ RegisterKbdFromRmlvo
  \/ FirstKeymap
  \/ Modifiers
  \/ EnterPressed
  \/ Drop

SpecEnter == Init /\ [][NextEnter]_vars

(***************************************************************************)
(* C15.  A step that handles an enter notification calls the enter         *)
(* callback with the serial and surface of the notification, the reported  *)
(* keycode list, a keysym list of the same length whose i-th entry is the  *)
(* engine's symbol for the i-th keycode in the interpretation state held   *)
(* before the step (0 without one), and the modifier snapshot held before  *)
(* the step.                                                               *)
(***************************************************************************)
C15_EnterStep ==
  event'.kind = "enter"
     => /\ handler'.cb = "enter"
        /\ handler'.serial = event'.serial
        /\ handler'.surface = event'.surface
        /\ handler'.rawkeys = event'.keys
        /\ Len(handler'.keysyms) = Len(event'.keys)
        /\ \A i \in 1..Len(event'.keys) : handler'.keysyms[i] = DirectSym(event'.keys[i])
        /\ handler'.mods = mods_state

C15_EnterResolvesInOrder == [][C15_EnterStep]_vars

C15_Witness ==
  /\ handler.cb = "enter"
  /\ Len(handler.keysyms) = 2
  /\ handler.keysyms[1] = XKB_KEY_E
  /\ handler.keysyms[2] = XKB_KEY_dead_acute
  /\ handler.mods.shift

(***************************************************************************)
(* C16.  The compose session outlives keymaps.  While the keyboard is      *)
(* registered the compose table and compose state it holds are live; no    *)
(* step of a registered keyboard changes which handles these are; a step   *)
(* that handles a keymap notification leaves both engine objects exactly   *)
(* as they were (same sequence position, not released); and the only step  *)
(* that releases either of them is the teardown.                           *)
(***************************************************************************)
ComposeReleased ==
  Called("xkb_compose_state_unref") \/ Called("xkb_compose_table_unref")

C16_ComposeLive ==
  (pc = "registered" /\ xkb_compose_state # NULL)
     => (Live(xkb_compose_state) /\ Live(xkb_compose_table))

C16_Step ==
  pc = "registered"
     => /\ UNCHANGED <<xkb_compose_table, xkb_compose_state>>
        /\ event'.kind = "keymap"
             => /\ ~ComposeReleased'
                /\ \A h \in {xkb_compose_table, xkb_compose_state} \ {NULL} :
                     heap'[h] = heap[h]
        /\ ComposeReleased' => event'.kind = "drop"

C16_ComposeOutlivesKeymap == [](C16_ComposeLive) /\ [][C16_Step]_vars

\* a second keymap has been installed in the middle of a compose sequence
C16_Witness ==
  /\ event.kind = "keymap"
  /\ pc = "registered"
  /\ IsReady
  /\ Cardinality(HandlesOf("keymap")) = 2
  /\ xkb_compose_state # NULL
  /\ Live(xkb_compose_state)
  /\ ComposeStatusNow = "XKB_COMPOSE_COMPOSING"

(***************************************************************************)
(* C17.  A step that handles a leave or a repeat_info notification calls   *)
(* the callback of the same name, once, with the notification's own        *)
(* arguments (serial and surface, rate and delay), makes no engine call,   *)
(* and changes no field of the keyboard state and no engine object.        *)
(***************************************************************************)
KbStateFields ==
  <<xkb_context, xkb_keymap, xkb_state, xkb_compose_table, xkb_compose_state,
    mods_state, locked>>

C17_Step ==
  /\ event'.kind = "leave"
       => /\ handler' = [cb |-> "leave", serial |-> event'.serial,
                         surface |-> event'.surface]
          /\ calls' = <<>>
          /\ UNCHANGED <<KbStateFields, heap, pc, result>>
  /\ event'.kind = "repeat_info"
       => /\ handler' = [cb |-> "repeat_info", rate |-> event'.rate,
                         delay |-> event'.delay]
          /\ calls' = <<>>
          /\ UNCHANGED <<KbStateFields, heap, pc, result>>

C17_PassThrough == [][C17_Step]_vars

\* focus is lost with shift held, in the middle of a compose sequence
C17_Witness ==
  /\ event.kind = "leave"
  /\ handler.cb = "leave"
  /\ IsReady
  /\ mods_state.shift
  /\ xkb_compose_state # NULL
  /\ ComposeStatusNow = "XKB_COMPOSE_COMPOSING"

(***************************************************************************)
(* C18.  Modifiers before the state is ready.  In every state of a         *)
(* registered keyboard without an interpretation state, update_modifiers   *)
(* returns the state it was given, with no engine call, for every          *)
(* depressed, latched and locked mask and every group; and every step that *)
(* handles a modifiers notification in such a state makes no engine call   *)
(* and changes neither the snapshot nor anything else of the state.        *)
(***************************************************************************)
AllMasks == SUBSET ModBits

C18_NoOpForAllValues ==
  (pc = "registered" /\ ~IsReady)
     => \A d \in AllMasks, l \in AllMasks, k \in AllMasks, g \in GroupValues :
          update_modifiers(Cur, d, l, k, g) = Cur

C18_Step ==
  (event'.kind = "modifiers" /\ ~IsReady)
     => /\ ~Called("xkb_state_update_mask")'
        /\ calls' = <<>>
        /\ handler' = NoCallback
        /\ UNCHANGED <<KbStateFields, heap, pc, result>>

C18_ModifiersBeforeReady == [](C18_NoOpForAllValues) /\ [][C18_Step]_vars

C18_Witness ==
  /\ event.kind = "modifiers"
  /\ event.mods_depressed = ModBits
  /\ event.group # 0
  /\ ~IsReady
  /\ ~Called("xkb_state_update_mask")
  /\ mods_state = ModifiersState_new

(***************************************************************************)
(* C19.  After a composed text.  The session shows Composed from the       *)
(* accepted press that completed the sequence (which reported the composed *)
(* text) until the next accepted press.  A key step taken while it shows   *)
(* Composed: if it feeds nothing to the session or its feed is ignored (a  *)
(* release, a modifier key, no keymap), reports no text and leaves the     *)
(* session as it is; if its feed is accepted, moves the session to where   *)
(* the pressed symbol leads from the root of the table (a new sequence),   *)
(* and reports the text of that new sequence, never the text composed      *)
(* before.  And the step that brings the session to Composed is a key      *)
(* press that reports the composed text.                                   *)
(***************************************************************************)
ShowsComposed ==
  /\ pc = "registered"
  /\ xkb_compose_state # NULL
  /\ ComposeStatusNow = "XKB_COMPOSE_COMPOSED"

C19_Step ==
  /\ (ShowsComposed /\ event'.kind = "key")
       => /\ FeedResult' # "XKB_COMPOSE_FEED_ACCEPTED"
               => /\ handler'.utf8 = None
                  /\ heap'[xkb_compose_state] = heap[xkb_compose_state]
          /\ FeedResult' = "XKB_COMPOSE_FEED_ACCEPTED"
               => /\ handler'.state = "Pressed"
                  /\ heap'[xkb_compose_state].data.context
                        = ComposeNext(0, handler'.keysym)
                  /\ handler'.utf8 # ComposedText
                  /\ handler'.utf8 =
                        IF ComposeStatusNow' = "XKB_COMPOSE_NOTHING"
                        THEN DirectText(handler'.rawkey) ELSE None
  /\ (~ShowsComposed /\ ShowsComposed')
       => /\ KeyPressHandled'
          /\ FeedResult' = "XKB_COMPOSE_FEED_ACCEPTED"
          /\ handler'.utf8 = ComposedText'
          /\ ComposedText' # None
  /\ (ShowsComposed /\ event'.kind # "key" /\ pc' = "registered") => ShowsComposed'

C19_ComposedTextOnce == [][C19_Step]_vars

\* the first accepted press after a composed text: a new sequence, direct text
C19_Witness ==
  /\ KeyPressHandled
  /\ FeedResult = "XKB_COMPOSE_FEED_ACCEPTED"
  /\ heap[xkb_compose_state].data.prev_context = 2
  /\ ComposeStatusNow = "XKB_COMPOSE_NOTHING"
  /\ handler.utf8 = Some(<<XKB_KEY_e>>)

(***************************************************************************)
(* C20.  The snapshot is never stale.  In every state of a registered      *)
(* keyboard that holds an interpretation state, each of the six booleans   *)
(* of mods_state is what xkb_state_mod_name_is_active answers for its name *)
(* on that interpretation state, and the snapshot last handed to a key or  *)
(* enter callback is that snapshot.                                        *)
(***************************************************************************)
C20_SnapshotNeverStale ==
  (pc = "registered" /\ IsReady)
     => /\ mods_state = EngineSnapshot(heap)
        /\ \A i \in 1..Len(ModNames) :
             LET active == xkb_state_mod_name_is_active(Cur, xkb_state, ModNames[i], NoUB) > 0
                 name == ModNames[i]
             IN active = CASE name = "Control" -> mods_state.ctrl
                           [] name = "Mod1" -> mods_state.alt
                           [] name = "Shift" -> mods_state.shift
                           [] name = "Lock" -> mods_state.caps_lock
                           [] name = "Mod4" -> mods_state.logo
                           [] name = "Mod2" -> mods_state.num_lock
        /\ handler.cb \in {"key", "enter"} => handler.mods = EngineSnapshot(heap)

\* a second keymap is in use and one of its modifiers is held
C20_Witness ==
  /\ pc = "registered"
  /\ IsReady
  /\ Cardinality(HandlesOf("keymap")) = 2
  /\ heap[xkb_state].data.content = 2
  /\ mods_state.ctrl
  /\ ~mods_state.shift
  /\ handler.cb = "key"
  /\ handler.mods.ctrl

(***************************************************************************)
(* C21.  Keymap accounting.  Between notifications the keymap handle is    *)
(* held exactly when the interpretation state is held, every keymap the    *)
(* engine compiled that is no longer held has been released once, and      *)
(* after teardown every keymap the engine compiled has been released once. *)
(* post_init stores the keymap even when xkb_state_new returns null; the   *)
(* keymap closure then skips de_init, because ready() is false, and the    *)
(* next keymap overwrites the handle without releasing it.                 *)
(***************************************************************************)
C21_KeymapsReleasedOnce ==
  /\ pc = "registered" => ((xkb_keymap # NULL) <=> (xkb_state # NULL))
  /\ pc = "registered"
       => \A h \in HandlesOf("keymap") \ {xkb_keymap} : heap[h].unrefs = 1
  /\ pc = "dropped" => \A h \in HandlesOf("keymap") : heap[h].unrefs = 1

(***************************************************************************)
(* SpecWide: the keyboard with key notifications whose keycode may lie at  *)
(* the top of the u32 range.  `checked` tells whether the build checks     *)
(* arithmetic overflow (debug profile), in which case keycode + 8 panics   *)
(* in get_one_sym_raw, the first use of the keycode, once the state is     *)
(* ready; otherwise (release profile) the sum wraps.                       *)
(***************************************************************************)
WideKeycodes == {U32Max - i : i \in 0..KeycodeOffset}

\* get_one_sym_raw reaches keycode + 8 only when ready; the build panics there
\* when it checks overflow and the sum exceeds the u32 range
add8_panics(s, keycode, checked) == ready(s) /\ checked /\ Add8Overflows(keycode)

KeyWide ==
  /\ pc = "registered"
  /\ \E serial \in Serials, time \in Times, rawkey \in Keycodes \cup WideKeycodes,
        key_state \in KeyStates, ignore \in BOOLEAN, checked \in BOOLEAN :
       /\ ignore => (key_state = "Pressed" /\ xkb_state # NULL /\ xkb_compose_state # NULL)
       /\ checked => (xkb_state # NULL /\ Add8Overflows(rawkey))
       /\ IF add8_panics(Cur, rawkey, checked)
          THEN /\ Commit(Cur)
               /\ handler' = NoCallback
               /\ pc' = PcAfter("panic")
          ELSE LET r == key_impl(Cur, serial, time, rawkey, key_state, ignore) IN
               /\ Commit(r.s)
               /\ handler' = r.handler
               /\ pc' = PcAfter("ok")
       /\ event' = [kind |-> "key", serial |-> serial, time |-> time,
                    key |-> rawkey, state |-> key_state]
  /\ UNCHANGED result

NextWide ==
  \/ RegisterKbd
  \/ RegisterKbdFromRmlvo
  \/ FirstKeymap
  \/ Modifiers
  \/ KeyWide
  \/ Drop

SpecWide == Init /\ [][NextWide]_vars

(***************************************************************************)
(* C22.  The keycode offset.  After every key notification handled with an *)
(* interpretation state, for every u32 keycode k: the handling did not     *)
(* panic, the symbol query and both UTF-8 queries were made with k + 8,    *)
(* and k + 8 did not wrap around.  For k from 0xFFFFFFF8 on, keycode + 8   *)
(* panics in a build that checks overflow and wraps to k - 0xFFFFFFF8 in   *)
(* one that does not.                                                      *)
(***************************************************************************)
KeycodeQueries ==
  CallsOf("xkb_state_key_get_one_sym") \cup CallsOf("xkb_state_key_get_utf8")

C22_OffsetNeverWraps ==
  (event.kind = "key" /\ IsReady)
     => /\ pc # "panicked"
        /\ Called("xkb_state_key_get_one_sym")
        /\ \A i \in KeycodeQueries :
             /\ calls[i].args[2] = event.key + KeycodeOffset
             /\ ~U32Lt(calls[i].args[2], event.key)

====
